---- MODULE Spec2Model ----
(***************************************************************************)
(* Fork & Flame menu-data pipeline.                                        *)
(*                                                                         *)
(*   getAllFoods      services/api.ts      (src/unnamed/part_000)          *)
(*   checkImageUrl    hooks/useImageValidation.ts                          *)
(*   validateImages   hooks/useMenuData.ts (useAllFoodsWithValidation)     *)
(*   cache, facade    hooks/useMenuData.ts (state initialisers, return)    *)
(*   useBestFoods     hooks/useMenuData.ts                                 *)
(*   getBestFoods, getFoodsByCategory, sortFoods   services/api.ts         *)
(*   cart handlers    pages/Menu.tsx                                       *)
(*                                                                         *)
(* SpecAgg is one run of getAllFoods: seven concurrent GETs that settle in *)
(* any order, then the aggregation loop.                                   *)
(*                                                                         *)
(* SpecVal is the full-catalog hook from mount with an empty store: the    *)
(* fetch completes, the validation effect starts validateImages, the image *)
(* probes of a batch fire their events in any order, the loop resumes      *)
(* after each batch and the pass ends with the state updates and the cache *)
(* write. FairProbeSpec adds that an armed probe timer fires.              *)
(*                                                                         *)
(* SpecFacade is a session of one page (Menu: useAllFoodsWithValidation,   *)
(* Home: useBestFoods) over a store left by earlier sessions: the mount    *)
(* read of the cache, the fetch, validation, the cache write and           *)
(* clearCacheAndRevalidate, with a clock and with storage calls that may   *)
(* throw.                                                                  *)
(*                                                                         *)
(* SpecRevalidate is the full-catalog hook from mount with an empty store  *)
(* and clearCacheAndRevalidate called up to twice; FairRevalidateSpec      *)
(* follows the passes to their end, with timers firing and continuations   *)
(* running. SpecCategory is calls of getFoodsByCategory, SpecCart clicks   *)
(* on the cart of the Menu page, SpecSort one call of sortFoods.           *)
(***************************************************************************)
EXTENDS Integers, Sequences, FiniteSets, TLC

VARIABLES
    aggPc,      \* getAllFoods: "idle" | "waiting" (at the await) | "done"
    settled,    \* Promise.allSettled slots, by position in the request array
    aggResult,  \* what the promise returned by getAllFoods settled to
    outOfOrder, \* history: a request settled while an earlier one was pending
    isMobile,           \* matchMedia('(max-width: 640px)').matches
    slowNet,            \* connection.saveData || effectiveType is 2g / slow-2g
    now,                \* Date.now()
    cache,              \* localStorage['forkFlameImageValidation']
    fetched,            \* the allFoods query has data
    resultData,         \* result.data ([] while undefined)
    validatedFoods,     \* useState
    isValidating,       \* useState
    validationProgress, \* useState, an exact fraction num / den
    hasValidated,       \* useState
    passes,             \* the calls of validateImages, in call order
    page,               \* the route rendered: "menu" | "home"
    mounted,            \* the page's hook has run its state initialisers
    storage,            \* the localStorage methods that throw when called
    crashed,            \* an exception left a render or a handler uncaught
    mountRead,          \* history: how the cache read at mount ended
    revalidations,      \* calls of clearCacheAndRevalidate so far
    bestCache,          \* localStorage['forkFlameBestFoodsValidation']
    bestFetched,        \* the bestFoods query has data
    bestData,           \* result.data of useBestFoods ([] while undefined)
    validatedBestFoods, \* useState (useBestFoods)
    bestIsValidating,   \* useState (useBestFoods)
    bestHasValidated,   \* useState (useBestFoods)
    bestPasses,         \* the calls of validateBestFoodsImages, in call order
    bestRequest,        \* how GET /best-foods ended: "none" | "ok" | "failed"
    bestError,          \* result.error of useBestFoods: "null" | "error"
    categoryCalls,      \* the calls of getFoodsByCategory, in call order
    cart,               \* useState<CartItem[]> of the Menu page
    lastClick,          \* history: the cart handler called last, its arguments
    sortCall            \* one call of sortFoods

aggVars == <<aggPc, settled, aggResult, outOfOrder>>

envVars == <<isMobile, slowNet, now>>

hookVars == <<cache, fetched, resultData, validatedFoods, isValidating,
              validationProgress, hasValidated, passes>>

storeVars == <<page, mounted, storage, crashed, mountRead, revalidations>>

bestVars == <<bestCache, bestFetched, bestData, validatedBestFoods,
              bestIsValidating, bestHasValidated, bestPasses>>

apiVars == <<bestRequest, bestError, categoryCalls>>

pageVars == <<cart, lastClick, sortCall>>

vars == <<aggVars, envVars, hookVars, storeVars, bestVars, apiVars, pageVars>>

----------------------------------------------------------------------------
(* Category aggregator: getAllFoods                                        *)

\* const categories = [...]  (the request array has the same order)
categories ==
    <<"burgers", "pizzas", "desserts", "drinks", "bbqs", "sandwiches", "steaks">>

CatIdx == 1..Len(categories)

\* Raw records as the API sends them: id is unique only inside a category.
a5 == [id |-> "5", name |-> "a"]
b5 == [id |-> "5", name |-> "b"]
c7 == [id |-> "7", name |-> "c"]

\* Response bodies (response.data): absent, a JSON object, or an array.
NullBody == [kind |-> "null", items |-> <<>>]
ObjectBody == [kind |-> "object", items |-> <<>>]
ArrayBody(s) == [kind |-> "array", items |-> s]

Payloads == { <<a5, b5>>, <<c7, a5>> }

Bodies == {NullBody, ObjectBody} \cup {ArrayBody(s) : s \in Payloads}

\* One slot of Promise.allSettled.
Pending == [status |-> "pending", data |-> NullBody]
Rejected == [status |-> "rejected", data |-> NullBody]
Fulfilled(body) == [status |-> "fulfilled", data |-> body]

Outcomes == {Rejected} \cup {Fulfilled(b) : b \in Bodies}

\* `${item.id}-${categories[index]}`
UniqueId(id, cat) == id \o "-" \o cat

\* result.value.data.map(item => ({...item, category, uniqueId}))
Tag(item, cat) ==
    [id |-> item.id, name |-> item.name, category |-> cat,
     uniqueId |-> UniqueId(item.id, cat)]

CategoryData(items, cat) == [i \in 1..Len(items) |-> Tag(items[i], cat)]

SeenIds(foods) == {foods[i].uniqueId : i \in 1..Len(foods)}

\* Variant without the seenIds test: every tagged item is pushed.
PushAll(allFoods, categoryData) == allFoods \o categoryData

\* categoryData.forEach(item => { if (item.uniqueId && !seenIds.has(...)) ... })
RECURSIVE PushUnique(_, _)
PushUnique(allFoods, categoryData) ==
    IF categoryData = <<>> THEN allFoods
    ELSE LET item == Head(categoryData)
             keep == item.uniqueId # "" /\ item.uniqueId \notin SeenIds(allFoods)
         IN PushUnique(IF keep THEN Append(allFoods, item) ELSE allFoods,
                       Tail(categoryData))

\* result.status === 'fulfilled' && result.value?.data
HasData(result) == result.status = "fulfilled" /\ result.data.kind # "null"

\* data.map is not a function: the callback throws out of forEach
MapThrows(result) == HasData(result) /\ result.data.kind # "array"

\* Variant that walks the settled results from the last slot to the first.
RECURSIVE ForEachBackwards(_, _, _)
ForEachBackwards(results, index, allFoods) ==
    IF index > Len(categories) THEN allFoods
    ELSE LET k == Len(categories) + 1 - index
         IN ForEachBackwards(results, index + 1,
                IF HasData(results[k])
                THEN PushUnique(allFoods,
                         CategoryData(results[k].data.items, categories[k]))
                ELSE allFoods)

\* [burgers, ..., steaks].forEach((result, index) => ...), from index onwards
RECURSIVE ForEachResult(_, _, _)
ForEachResult(results, index, allFoods) ==
    IF index > Len(categories) THEN allFoods
    ELSE ForEachResult(results, index + 1,
            IF HasData(results[index])
            THEN PushUnique(allFoods,
                     CategoryData(results[index].data.items, categories[index]))
            ELSE allFoods)

\* Variant joining with Promise.all: one rejection lands in the outer catch.
GetAllFoodsFailFast(results) ==
    IF \E k \in CatIdx : results[k].status = "rejected" \/ MapThrows(results[k])
    THEN [state |-> "resolved", value |-> <<>>]
    ELSE [state |-> "resolved", value |-> ForEachResult(results, 1, <<>>)]

\* The body of getAllFoods after the await: try { ... } catch { return [] }
GetAllFoods(results) ==
    IF \E k \in CatIdx : MapThrows(results[k])
    THEN [state |-> "resolved", value |-> <<>>]
    ELSE [state |-> "resolved", value |-> ForEachResult(results, 1, <<>>)]

NoResult == [state |-> "none", value |-> <<>>]

AggStart ==
    /\ aggPc = "idle"
    /\ settled = [k \in CatIdx |-> Pending]
    /\ aggResult = NoResult
    /\ outOfOrder = FALSE

\* queryFn: getAllFoods() issues the seven GETs and awaits allSettled
CallGetAllFoods ==
    /\ aggPc = "idle"
    /\ aggPc' = "waiting"
    /\ UNCHANGED <<apiVars, pageVars,
                   settled, aggResult, outOfOrder, envVars, hookVars,
                   storeVars, bestVars>>

\* One request fulfils or rejects (any order)
SettleRequest ==
    /\ aggPc = "waiting"
    /\ \E k \in CatIdx, o \in Outcomes :
          /\ settled[k] = Pending
          /\ settled' = [settled EXCEPT ![k] = o]
          /\ outOfOrder' = (outOfOrder \/ \E j \in 1..(k - 1) : settled[j] = Pending)
    /\ UNCHANGED <<apiVars, pageVars,
                   aggPc, aggResult, envVars, hookVars,
                   storeVars, bestVars>>

\* All seven settled: the continuation after the await runs to the return
Aggregate ==
    /\ aggPc = "waiting"
    /\ \A k \in CatIdx : settled[k] # Pending
    /\ aggResult' = GetAllFoods(settled)
    /\ aggPc' = "done"
    /\ UNCHANGED <<apiVars, pageVars,
                   settled, outOfOrder, envVars, hookVars,
                   storeVars, bestVars>>

NextAgg ==
    \/ CallGetAllFoods
    \/ SettleRequest
    \/ Aggregate

----------------------------------------------------------------------------
(* Image probe: useImageValidation.checkImageUrl                           *)

NoProbe == [promise |-> "none", timer |-> "none", img |-> "none"]

\* resolve(v): only the first call settles the promise
Resolve(promise, v) == IF promise = "pending" THEN v ELSE promise

\* clearTimeout(timeout)
ClearTimeout(timer) == IF timer = "armed" THEN "cleared" ELSE timer

\* checkImageUrl(url) up to the return of the promise
CheckImageUrl(url) ==
    IF url = ""
    THEN [promise |-> "false", timer |-> "none", img |-> "none"]
    ELSE [promise |-> "pending", timer |-> "armed", img |-> "loading"]

\* Variant that stores the outcome again on every load event.
OnLoadOverwrite(probe) ==
    [promise |-> "true", timer |-> ClearTimeout(probe.timer), img |-> "load"]

\* img.onload
OnLoad(probe) ==
    [promise |-> Resolve(probe.promise, "true"),
     timer |-> ClearTimeout(probe.timer),
     img |-> "load"]

\* img.onerror
OnError(probe) ==
    [promise |-> Resolve(probe.promise, "false"),
     timer |-> ClearTimeout(probe.timer),
     img |-> "error"]

\* Variant whose timer callback leaves the promise as it is.
OnTimeoutNoResolve(probe) ==
    [promise |-> probe.promise, timer |-> "fired", img |-> probe.img]

\* the setTimeout callback
OnTimeout(probe) ==
    [promise |-> Resolve(probe.promise, "false"),
     timer |-> "fired",
     img |-> probe.img]

Resolved(probe) == probe.promise \in {"true", "false"}

----------------------------------------------------------------------------
(* Image validator: validateImages in useAllFoodsWithValidation            *)

MobileBatchSize == 10
DesktopBatchSize == 50
MobileLimit == 30
DesktopLimit == 80

Min(a, b) == IF a < b THEN a ELSE b

\* Catalogs handed to the validator: n items with distinct uniqueIds, the
\* items at the positions in live carry an image URL, the others none.
MaxCatalog == 82
MaxLive == 2

LiveSlots == {2, 11, 12, 31, 81}

\* Sizes at which a batch or the window is exactly full, one or two over,
\* or partly filled (25 of 30, 65 of 80), and the largest size.
CatalogSizes ==
    {0, 1, 10, 11, 25, 30, 31, 50, 51, 65, 80, 81, MaxCatalog}

Food(k, url) == [uniqueId |-> k, img |-> url]

CatalogOf(n, live) == [k \in 1..n |-> Food(k, IF k \in live THEN "u" ELSE "")]

Catalogs ==
    { CatalogOf(n, live) :
          n \in CatalogSizes,
          live \in {L \in SUBSET LiveSlots : Cardinality(L) <= MaxLive} }

Zero == [num |-> 0, den |-> 1]
Hundred == [num |-> 100, den |-> 1]

\* What is stored under a cache key: nothing, a string JSON.parse rejects,
\* or the JSON text of {foods, timestamp}.
NoRecord == [present |-> FALSE, json |-> "none", foods |-> <<>>, timestamp |-> 0]

Garbage == [present |-> TRUE, json |-> "garbage", foods |-> <<>>, timestamp |-> 0]

Record(foods, timestamp) ==
    [present |-> TRUE, json |-> "record", foods |-> foods, timestamp |-> timestamp]

\* localStorage.<op>(...) throws (quota exceeded, storage disabled)
Throws(op) == op \in storage

\* const batchSize = isMobile ? 10 : 50
BatchSize == IF isMobile THEN MobileBatchSize ELSE DesktopBatchSize

\* Variant without the window: every item is validated.
ValidateAll(foods) == Len(foods)

\* const validateLimit = Math.min(foods.length, isMobile ? 30 : 80)
ValidateLimit(foods) ==
    Min(Len(foods), IF isMobile THEN MobileLimit ELSE DesktopLimit)

\* foods.slice(0, validateLimit)
ToValidate(foods) == SubSeq(foods, 1, ValidateLimit(foods))

\* foods.slice(validateLimit)
Remaining(foods) == SubSeq(foods, ValidateLimit(foods) + 1, Len(foods))

\* One call of validateImages: its parameter, the validatedFoods its closure
\* holds, its locals and the probes it created (by position in foods).
NewPass(foods, closure) ==
    [foods |-> foods,
     closure |-> closure,
     pc |-> "start",
     i |-> 0,
     validFirst |-> <<>>,
     invalidWithinValidated |-> <<>>,
     reordered |-> <<>>,
     probes |-> [k \in 1..Len(foods) |-> NoProbe],
     probeCount |-> 0,
     raced |-> FALSE]

\* positions of toValidate.slice(i, i + batchSize)
BatchOf(pass) ==
    (pass.i + 1)..Min(pass.i + BatchSize, Len(ToValidate(pass.foods)))

\* batch.map(async (food) => ... await checkImageUrl(food.img) ...)
StartBatch(pass) ==
    [pass EXCEPT
        !.pc = "probing",
        !.probes = [k \in DOMAIN pass.probes |->
                       IF k \in BatchOf(pass)
                       THEN CheckImageUrl(pass.foods[k].img)
                       ELSE pass.probes[k]],
        !.probeCount = @ + Cardinality(BatchOf(pass))]

\* Variant that resumes as soon as one probe of the batch has resolved.
AnyResolved(pass) == \E k \in BatchOf(pass) : Resolved(pass.probes[k])

\* await Promise.all(batchPromises)
AllResolved(pass) == \A k \in BatchOf(pass) : Resolved(pass.probes[k])

\* The positions lo..hi as a sequence.
Positions(lo, hi) == [n \in 1..(hi - lo + 1) |-> lo + n - 1]

\* The items of foods at the given positions, in that order.
ItemsAt(foods, positions) == [n \in 1..Len(positions) |-> foods[positions[n]]]

\* batchResults.forEach(({food, isValid}) => ...), in batch order
PushResults(pass, lo, hi) ==
    LET IsValid(k) == pass.probes[k].promise = "true"
        NotValid(k) == ~IsValid(k)
        valid == SelectSeq(Positions(lo, hi), IsValid)
        invalid == SelectSeq(Positions(lo, hi), NotValid)
    IN [pass EXCEPT
          !.validFirst = @ \o ItemsAt(pass.foods, valid),
          !.invalidWithinValidated = @ \o ItemsAt(pass.foods, invalid)]

\* Variant that takes the raw quotient, without Math.min(..., 100).
ProgressUncapped(pass) ==
    [num |-> (pass.i + BatchSize) * 100, den |-> Len(ToValidate(pass.foods))]

\* Math.min(((i + batchSize) / toValidate.length) * 100, 100)
Progress(pass) ==
    LET w == Len(ToValidate(pass.foods))
        x == pass.i + BatchSize
    IN IF x * 100 > 100 * w THEN Hundred ELSE [num |-> x * 100, den |-> w]

\* Variant that keeps only the confirmed items of the window.
ReorderedDropInvalid(pass) == pass.validFirst \o Remaining(pass.foods)

\* Variant that appends the invalid items after the tail.
ReorderedTailFirst(pass) ==
    pass.validFirst \o Remaining(pass.foods) \o pass.invalidWithinValidated

\* [...validFirst, ...invalidWithinValidated, ...remaining]
Reordered(pass) ==
    pass.validFirst \o pass.invalidWithinValidated \o Remaining(pass.foods)

\* localStorage.setItem(key, JSON.stringify({foods: validatedFoods, timestamp}))
CacheWrite(pass) == Record(pass.closure, now)

\* The hook state a call of validateImages writes.
HookState ==
    [validatedFoods |-> validatedFoods,
     isValidating |-> isValidating,
     validationProgress |-> validationProgress,
     cache |-> cache]

\* The loop test; then the next batch up to its await, or the code after
\* the loop up to the end of validateImages.
LoopHead(pass, h) ==
    IF pass.i < Len(ToValidate(pass.foods))
    THEN [pass |-> StartBatch(pass), h |-> h]
    ELSE [pass |-> [pass EXCEPT !.pc = "done", !.reordered = Reordered(pass)],
          h |-> [validatedFoods |-> Reordered(pass),
                 isValidating |-> FALSE,
                 validationProgress |-> Hundred,
                 cache |-> IF Throws("setItem") THEN h.cache
                           ELSE CacheWrite(pass)]]

\* From the resolution of Promise.all to the next await (or the end).
AfterBatch(pass, h) ==
    LET lo == pass.i + 1
        hi == Min(pass.i + BatchSize, Len(ToValidate(pass.foods)))
        pushed == PushResults(pass, lo, hi)
        h2 == [h EXCEPT !.validationProgress = Progress(pass)]
        next == [pushed EXCEPT !.i = @ + BatchSize]
    IN IF isMobile
       THEN [pass |-> [next EXCEPT !.pc = "yield"], h |-> h2]
       ELSE LoopHead(next, h2)

\* validateImages(foods) from the call to its first await.
ValidateImages(foods, h) ==
    LoopHead(NewPass(foods, h.validatedFoods),
             [h EXCEPT !.validationProgress = Zero])

WriteHook(h) ==
    /\ validatedFoods' = h.validatedFoods
    /\ isValidating' = h.isValidating
    /\ validationProgress' = h.validationProgress
    /\ cache' = h.cache

PassIdx == 1..Len(passes)

\* The allFoods query delivers its data (enabled: validatedFoods.length === 0).
FetchFrom(served) ==
    /\ page = "menu"
    /\ mounted
    /\ ~fetched
    /\ Len(validatedFoods) = 0
    /\ fetched' = TRUE
    /\ resultData' \in served
    /\ UNCHANGED <<apiVars, pageVars,
                   aggVars, envVars, storeVars, bestVars, cache, validatedFoods, isValidating,
                   validationProgress, hasValidated, passes>>

FetchCompleted == FetchFrom(Catalogs)

\* useEffect(..., [result.data, hasValidated, validatedFoods.length])
ValidationEffect ==
    /\ fetched
    /\ Len(resultData) > 0
    /\ ~hasValidated
    /\ Len(validatedFoods) = 0
    /\ IF isMobile /\ slowNet
       THEN /\ hasValidated' = TRUE
            /\ isValidating' = FALSE
            /\ UNCHANGED <<cache, validatedFoods, validationProgress, passes>>
       ELSE LET r == ValidateImages(resultData,
                                    [HookState EXCEPT !.isValidating = TRUE])
            IN /\ passes' = Append(passes, r.pass)
               /\ WriteHook(r.h)
               /\ hasValidated' = TRUE
    /\ UNCHANGED <<apiVars, pageVars,
                   aggVars, envVars, storeVars, bestVars, fetched, resultData>>

\* An event of one probe; raced records that it resolved the probe while an
\* earlier item of the same batch was still pending.
ProbeEvent(p, k, after) ==
    /\ passes' = [passes EXCEPT
          ![p].probes[k] = after,
          ![p].raced = @ \/ (/\ passes[p].probes[k].promise = "pending"
                             /\ \E j \in BatchOf(passes[p]) :
                                   /\ j < k
                                   /\ passes[p].probes[j].promise = "pending")]
    /\ UNCHANGED <<apiVars, pageVars,
                   aggVars, envVars, storeVars, bestVars, cache, fetched, resultData, validatedFoods,
                   isValidating, validationProgress, hasValidated>>

ImgLoad ==
    \E p \in PassIdx : \E k \in DOMAIN passes[p].probes :
        /\ passes[p].probes[k].img = "loading"
        /\ ProbeEvent(p, k, OnLoad(passes[p].probes[k]))

ImgError ==
    \E p \in PassIdx : \E k \in DOMAIN passes[p].probes :
        /\ passes[p].probes[k].img = "loading"
        /\ ProbeEvent(p, k, OnError(passes[p].probes[k]))

ProbeTimeout ==
    \E p \in PassIdx : \E k \in DOMAIN passes[p].probes :
        /\ passes[p].probes[k].timer = "armed"
        /\ ProbeEvent(p, k, OnTimeout(passes[p].probes[k]))

\* The continuation of await Promise.all(batchPromises)
BatchSettled ==
    \E p \in PassIdx :
        /\ passes[p].pc = "probing"
        /\ AllResolved(passes[p])
        /\ LET r == AfterBatch(passes[p], HookState)
           IN /\ passes' = [passes EXCEPT ![p] = r.pass]
              /\ WriteHook(r.h)
        /\ UNCHANGED <<apiVars, pageVars,
                       aggVars, envVars, storeVars, bestVars, fetched, resultData, hasValidated>>

\* The continuation of await new Promise(resolve => setTimeout(resolve, 0))
AfterYield ==
    \E p \in PassIdx :
        /\ passes[p].pc = "yield"
        /\ LET r == LoopHead(passes[p], HookState)
           IN /\ passes' = [passes EXCEPT ![p] = r.pass]
              /\ WriteHook(r.h)
        /\ UNCHANGED <<apiVars, pageVars,
                       aggVars, envVars, storeVars, bestVars, fetched, resultData, hasValidated>>

----------------------------------------------------------------------------
(* Validation cache and facade: useAllFoodsWithValidation                  *)

\* 24 * 60 * 60 * 1000
TTL == 86400000

\* Variant that expires a record as soon as it is 24 hours old.
IsExpiredAtLimit(rec, t) == t - rec.timestamp >= TTL

\* const isExpired = Date.now() - timestamp > 24 * 60 * 60 * 1000
IsExpired(rec, t) == t - rec.timestamp > TTL

\* Variant whose catch block returns [] and leaves the stored value alone.
ReadFailedKeep(rec, outcome) ==
    [foods |-> <<>>, store |-> rec, outcome |-> outcome]

\* catch (error) { console.warn(...); localStorage.removeItem(key); } return []
\* (a throw of removeItem here leaves the initialiser)
ReadFailed(rec, outcome) ==
    IF Throws("removeItem")
    THEN [foods |-> <<>>, store |-> rec, outcome |-> "threw"]
    ELSE [foods |-> <<>>, store |-> NoRecord, outcome |-> outcome]

\* useState<FoodItem[]>(() => { ... }): the value, what the store holds
\* afterwards and how the read ended
InitValidatedFoods(rec) ==
    IF Throws("getItem") THEN ReadFailed(rec, "unreadable")
    ELSE IF ~rec.present
         THEN [foods |-> <<>>, store |-> rec, outcome |-> "miss"]
    ELSE IF rec.json = "garbage" THEN ReadFailed(rec, "corrupt")
    ELSE IF ~IsExpired(rec, now) /\ Len(rec.foods) > 0
         THEN [foods |-> rec.foods, store |-> rec, outcome |-> "hit"]
    ELSE IF IsExpired(rec, now)
         THEN IF Throws("removeItem") THEN ReadFailed(rec, "expired")
              ELSE [foods |-> <<>>, store |-> NoRecord, outcome |-> "expired"]
    ELSE [foods |-> <<>>, store |-> rec, outcome |-> "empty"]

\* Variant that also asks for a non-empty foods list.
InitHasValidatedNonEmpty(rec) ==
    IF Throws("getItem") THEN FALSE
    ELSE IF ~rec.present THEN FALSE
    ELSE IF rec.json = "garbage" THEN FALSE
    ELSE ~IsExpired(rec, now) /\ Len(rec.foods) > 0

\* useState<boolean>(() => { ... }), run after the initialiser above
InitHasValidated(rec) ==
    IF Throws("getItem") THEN FALSE
    ELSE IF ~rec.present THEN FALSE
    ELSE IF rec.json = "garbage" THEN FALSE
    ELSE ~IsExpired(rec, now)

\* First render of the Menu page: the state initialisers of the hook.
MountMenu ==
    /\ page = "menu"
    /\ ~mounted
    /\ ~crashed
    /\ LET r == InitValidatedFoods(cache)
       IN /\ mountRead' = r.outcome
          /\ cache' = r.store
          /\ IF r.outcome = "threw"
             THEN /\ crashed' = TRUE
                  /\ UNCHANGED <<mounted, validatedFoods, hasValidated>>
             ELSE /\ mounted' = TRUE
                  /\ validatedFoods' = r.foods
                  /\ hasValidated' = InitHasValidated(r.store)
                  /\ UNCHANGED crashed
    /\ UNCHANGED <<apiVars, pageVars,
                   aggVars, envVars, fetched, resultData, isValidating,
                   validationProgress, passes, page, storage, revalidations,
                   bestVars>>

\* Calls of clearCacheAndRevalidate in one session.
MaxRevalidate == 1

\* Variant that empties the whole store: localStorage.clear().
ClearedAll == NoRecord

\* What the featured key holds after removeItem('forkFlameImageValidation').
OtherKeyAfterClear == bestCache

\* Variant that hands validateImages the catalog in reverse.
RevalidateReversed ==
    [k \in 1..Len(resultData) |-> resultData[Len(resultData) + 1 - k]]

\* validateImages(result.data) in clearCacheAndRevalidate
RevalidateArgument == resultData

\* The Refresh button of the Menu page (rendered when !isValidating &&
\* hasValidated) calls clearCacheAndRevalidate; validateImages is the one of
\* the render in which result.data last changed, where validatedFoods was [].
ClearCacheAndRevalidateUpTo(calls) ==
    /\ page = "menu"
    /\ mounted
    /\ ~isValidating
    /\ hasValidated
    /\ revalidations < calls
    /\ revalidations' = revalidations + 1
    /\ IF Throws("removeItem")
       THEN /\ crashed' = TRUE
            /\ UNCHANGED <<hookVars, bestCache>>
       ELSE /\ hasValidated' = FALSE
            /\ bestCache' = OtherKeyAfterClear
            /\ UNCHANGED crashed
            /\ IF fetched /\ Len(resultData) > 0
               THEN LET r == ValidateImages(RevalidateArgument,
                                 [validatedFoods |-> <<>>,
                                  isValidating |-> TRUE,
                                  validationProgress |-> Zero,
                                  cache |-> NoRecord])
                    IN /\ passes' = Append(passes, r.pass)
                       /\ WriteHook(r.h)
               ELSE /\ validatedFoods' = <<>>
                    /\ validationProgress' = Zero
                    /\ cache' = NoRecord
                    /\ UNCHANGED <<isValidating, passes>>
            /\ UNCHANGED <<fetched, resultData>>
    /\ UNCHANGED <<apiVars, pageVars,
                   aggVars, envVars, page, mounted, storage, mountRead,
                   bestFetched, bestData, validatedBestFoods, bestIsValidating,
                   bestHasValidated, bestPasses>>

ClearCacheAndRevalidate == ClearCacheAndRevalidateUpTo(MaxRevalidate)

\* const finalData = validatedFoods.length > 0 ? validatedFoods : (result.data || [])
FinalData == IF Len(validatedFoods) > 0 THEN validatedFoods ELSE resultData

\* (f as any).uniqueId || f.id   (a missing uniqueId is 0 here)
Key(f) == IF f.uniqueId # 0 THEN f.uniqueId ELSE f.id

\* Variant that returns the list as it is.
NoDedup(foods, seen, out) == out \o foods

\* for (const f of finalData) { if (!seen.has(key)) { seen.add(key); out.push(f) } }
RECURSIVE DedupLoop(_, _, _)
DedupLoop(foods, seen, out) ==
    IF foods = <<>> THEN out
    ELSE LET f == Head(foods)
         IN IF Key(f) \in seen
            THEN DedupLoop(Tail(foods), seen, out)
            ELSE DedupLoop(Tail(foods), seen \cup {Key(f)}, Append(out, f))

\* data: deduped
Deduped == DedupLoop(FinalData, {}, <<>>)

\* validCount: validatedFoods.length
ValidCount == Len(validatedFoods)

\* totalCount: result.data?.length || 0
TotalCount == Len(resultData)

----------------------------------------------------------------------------
(* Featured subset: useBestFoods                                           *)

\* Items the /best-foods request delivers at most.
MaxBest == 2

\* Of these, the items that carry an image URL at most.
MaxBestLive == 1

BestCatalogs ==
    { CatalogOf(n, live) :
          n \in 0..MaxBest,
          live \in {L \in SUBSET (1..MaxBest) : Cardinality(L) <= MaxBestLive} }

\* useState<FoodItem[]>(() => { ... }) of validatedBestFoods
InitValidatedBestFoods(rec) ==
    IF Throws("getItem") THEN ReadFailed(rec, "unreadable")
    ELSE IF ~rec.present
         THEN [foods |-> <<>>, store |-> rec, outcome |-> "miss"]
    ELSE IF rec.json = "garbage" THEN ReadFailed(rec, "corrupt")
    ELSE IF ~IsExpired(rec, now) /\ Len(rec.foods) > 0
         THEN [foods |-> rec.foods, store |-> rec, outcome |-> "hit"]
    ELSE IF IsExpired(rec, now)
         THEN IF Throws("removeItem") THEN ReadFailed(rec, "expired")
              ELSE [foods |-> <<>>, store |-> NoRecord, outcome |-> "expired"]
    ELSE [foods |-> <<>>, store |-> rec, outcome |-> "empty"]

\* useState<boolean>(() => { ... }) of hasValidated in useBestFoods
InitBestHasValidated(rec) ==
    IF Throws("getItem") THEN FALSE
    ELSE IF ~rec.present THEN FALSE
    ELSE IF rec.json = "garbage" THEN FALSE
    ELSE ~IsExpired(rec, now)

BestUnmounted ==
    /\ bestFetched = FALSE
    /\ bestData = <<>>
    /\ validatedBestFoods = <<>>
    /\ bestIsValidating = FALSE
    /\ bestHasValidated = FALSE
    /\ bestPasses = <<>>

\* First render of the Home page: the state initialisers of useBestFoods.
MountHome ==
    /\ page = "home"
    /\ ~mounted
    /\ ~crashed
    /\ LET r == InitValidatedBestFoods(bestCache)
       IN /\ mountRead' = r.outcome
          /\ bestCache' = r.store
          /\ IF r.outcome = "threw"
             THEN /\ crashed' = TRUE
                  /\ UNCHANGED <<mounted, validatedBestFoods, bestHasValidated>>
             ELSE /\ mounted' = TRUE
                  /\ validatedBestFoods' = r.foods
                  /\ bestHasValidated' = InitBestHasValidated(r.store)
                  /\ UNCHANGED crashed
    /\ UNCHANGED <<apiVars, pageVars,
                   aggVars, envVars, hookVars, page, storage, revalidations,
                   bestFetched, bestData, bestIsValidating, bestPasses>>

\* How apiClient.get('/best-foods') ends: the promise rejects (network
\* error, timeout, non-2xx status) or fulfils with the response body.
BestResponses ==
    {[status |-> "failed", data |-> <<>>]}
        \cup {[status |-> "ok", data |-> c] : c \in BestCatalogs}

\* getBestFoods: try { return response.data } catch { return [] }
GetBestFoods(response) ==
    IF response.status = "ok"
    THEN [status |-> "fulfilled", data |-> response.data]
    ELSE [status |-> "fulfilled", data |-> <<>>]

\* result.error of useQuery: the rejection of queryFn, null otherwise.
QueryError(promise) == IF promise.status = "rejected" THEN "error" ELSE "null"

\* The bestFoods query settles: queryFn is getBestFoods.
BestFetchCompleted ==
    /\ page = "home"
    /\ mounted
    /\ ~bestFetched
    /\ \E response \in BestResponses :
          LET promise == GetBestFoods(response)
          IN /\ bestRequest' = response.status
             /\ bestError' = QueryError(promise)
             /\ bestFetched' = (promise.status = "fulfilled")
             /\ bestData' = promise.data
    /\ UNCHANGED <<categoryCalls, pageVars,
                   aggVars, envVars, hookVars, storeVars, bestCache,
                   validatedBestFoods, bestIsValidating, bestHasValidated,
                   bestPasses>>

\* validateBestFoodsImages(foods) up to await Promise.all(validationPromises)
NewBestPass(foods) ==
    [foods |-> foods,
     pc |-> "probing",
     probes |-> [k \in 1..Len(foods) |-> CheckImageUrl(foods[k].img)]]

\* useEffect(..., [result.data, hasValidated]) of useBestFoods
BestValidationEffect ==
    /\ bestFetched
    /\ Len(bestData) > 0
    /\ ~bestHasValidated
    /\ bestIsValidating' = TRUE
    /\ bestPasses' = Append(bestPasses, NewBestPass(bestData))
    /\ bestHasValidated' = TRUE
    /\ UNCHANGED <<apiVars, pageVars,
                   aggVars, envVars, hookVars, storeVars, bestCache,
                   bestFetched, bestData, validatedBestFoods>>

BestProbeEvent(p, k, after) ==
    /\ bestPasses' = [bestPasses EXCEPT ![p].probes[k] = after]
    /\ UNCHANGED <<apiVars, pageVars,
                   aggVars, envVars, hookVars, storeVars, bestCache,
                   bestFetched, bestData, validatedBestFoods, bestIsValidating,
                   bestHasValidated>>

BestImgLoad ==
    \E p \in 1..Len(bestPasses) : \E k \in DOMAIN bestPasses[p].probes :
        /\ bestPasses[p].probes[k].img = "loading"
        /\ BestProbeEvent(p, k, OnLoad(bestPasses[p].probes[k]))

BestImgError ==
    \E p \in 1..Len(bestPasses) : \E k \in DOMAIN bestPasses[p].probes :
        /\ bestPasses[p].probes[k].img = "loading"
        /\ BestProbeEvent(p, k, OnError(bestPasses[p].probes[k]))

BestProbeTimeout ==
    \E p \in 1..Len(bestPasses) : \E k \in DOMAIN bestPasses[p].probes :
        /\ bestPasses[p].probes[k].timer = "armed"
        /\ BestProbeEvent(p, k, OnTimeout(bestPasses[p].probes[k]))

\* validationResults.filter(food => food !== null)
ValidFoods(pass) ==
    LET IsValid(k) == pass.probes[k].promise = "true"
    IN ItemsAt(pass.foods, SelectSeq(Positions(1, Len(pass.foods)), IsValid))

\* The continuation of await Promise.all(validationPromises)
BestValidated ==
    \E p \in 1..Len(bestPasses) :
        /\ bestPasses[p].pc = "probing"
        /\ \A k \in DOMAIN bestPasses[p].probes :
              Resolved(bestPasses[p].probes[k])
        /\ bestPasses' = [bestPasses EXCEPT ![p].pc = "done"]
        /\ validatedBestFoods' = ValidFoods(bestPasses[p])
        /\ bestIsValidating' = FALSE
        /\ bestCache' = IF Throws("setItem") THEN bestCache
                        ELSE Record(ValidFoods(bestPasses[p]), now)
        /\ UNCHANGED <<apiVars, pageVars,
                       aggVars, envVars, hookVars, storeVars, bestFetched,
                       bestData, bestHasValidated>>

\* Variant without the fallback to the fetched list.
ValidatedOrNothing(validated, data) == validated

\* validatedBestFoods.length > 0 ? validatedBestFoods : (result.data || [])
ValidatedOrRaw(validated, data) == IF Len(validated) > 0 THEN validated ELSE data

\* const finalData = ... of useBestFoods
BestFinalData == ValidatedOrRaw(validatedBestFoods, bestData)

\* const finalLoading = result.isLoading || isValidating
BestIsLoading == ~bestFetched \/ bestIsValidating

\* clearCacheAndRevalidate of useBestFoods
BestClearCacheAndRevalidate ==
    /\ page = "home"
    /\ mounted
    /\ revalidations < MaxRevalidate
    /\ revalidations' = revalidations + 1
    /\ IF Throws("removeItem")
       THEN /\ crashed' = TRUE
            /\ UNCHANGED <<bestCache, validatedBestFoods, bestIsValidating,
                           bestHasValidated, bestPasses>>
       ELSE /\ bestCache' = NoRecord
            /\ bestHasValidated' = FALSE
            /\ validatedBestFoods' = <<>>
            /\ UNCHANGED crashed
            /\ IF bestFetched /\ Len(bestData) > 0
               THEN /\ bestIsValidating' = TRUE
                    /\ bestPasses' = Append(bestPasses, NewBestPass(bestData))
               ELSE UNCHANGED <<bestIsValidating, bestPasses>>
    /\ UNCHANGED <<apiVars, pageVars,
                   aggVars, envVars, hookVars, page, mounted, storage,
                   mountRead, bestFetched, bestData>>

----------------------------------------------------------------------------
(* getFoodsByCategory                                                      *)

\* API_CONFIG.ENDPOINTS
ENDPOINTS ==
    [BEST_FOODS |-> "/best-foods", BURGERS |-> "/burgers",
     PIZZAS |-> "/pizzas", DESSERTS |-> "/desserts", DRINKS |-> "/drinks",
     ICE_CREAM |-> "/ice-cream", BBQS |-> "/bbqs",
     SANDWICHES |-> "/sandwiches", STEAKS |-> "/steaks"]

\* Arguments of getFoodsByCategory: the names the hooks pass, other
\* spellings of them, and names of no endpoint.
CategoryArgs ==
    {"burgers", "Pizzas", "STEAKS", "ice_cream", "Ice_Cream", "best_foods",
     "ice-cream", "icecream", "salads", "constructor", ""}

\* category.toUpperCase()
ToUpperCase(category) ==
    CASE category = "burgers" -> "BURGERS"
      [] category = "Pizzas" -> "PIZZAS"
      [] category = "STEAKS" -> "STEAKS"
      [] category = "ice_cream" -> "ICE_CREAM"
      [] category = "Ice_Cream" -> "ICE_CREAM"
      [] category = "best_foods" -> "BEST_FOODS"
      [] category = "ice-cream" -> "ICE-CREAM"
      [] category = "icecream" -> "ICECREAM"
      [] category = "salads" -> "SALADS"
      [] category = "constructor" -> "CONSTRUCTOR"
      [] category = "" -> ""

\* A call: the GETs it issued, how its GET ended, and the promise returned.
NoPromise == [status |-> "pending", error |-> "none", data |-> <<>>]

\* getFoodsByCategory up to the await: the lookup of the endpoint, the
\* throw new Error(`Invalid category: ...`) caught and rethrown, the GET.
GetFoodsByCategory(category) ==
    LET key == ToUpperCase(category)
    IN IF key \notin DOMAIN ENDPOINTS
       THEN [category |-> category, pc |-> "returned", requests |-> <<>>,
             response |-> "none",
             promise |-> [status |-> "rejected", error |-> "Invalid category",
                          data |-> <<>>]]
       ELSE [category |-> category, pc |-> "awaiting",
             requests |-> <<ENDPOINTS[key]>>, response |-> "none",
             promise |-> NoPromise]

\* Variant of the catch block that answers a failed request with [].
CatchReturnsEmpty(call) ==
    [call EXCEPT !.pc = "returned", !.response = "failed",
                 !.promise = [status |-> "fulfilled", error |-> "none",
                              data |-> <<>>]]

\* catch (error) { console.error(...); throw error; }
CatchRethrows(call) ==
    [call EXCEPT !.pc = "returned", !.response = "failed",
                 !.promise = [status |-> "rejected", error |-> "request failed",
                              data |-> <<>>]]

\* return response.data
ReturnData(call, data) ==
    [call EXCEPT !.pc = "returned", !.response = "ok",
                 !.promise = [status |-> "fulfilled", error |-> "none",
                              data |-> data]]

\* Calls of getFoodsByCategory in one run.
MaxCalls == 2

CallGetFoodsByCategory ==
    /\ Len(categoryCalls) < MaxCalls
    /\ \E category \in CategoryArgs :
          categoryCalls' = Append(categoryCalls, GetFoodsByCategory(category))
    /\ UNCHANGED <<aggVars, envVars, hookVars, storeVars, bestVars,
                   bestRequest, bestError, pageVars>>

\* apiClient.get(endpoint) rejects: network error, timeout, non-2xx status.
CategoryRequestFails ==
    /\ \E c \in 1..Len(categoryCalls) :
          /\ categoryCalls[c].pc = "awaiting"
          /\ categoryCalls' =
                 [categoryCalls EXCEPT ![c] = CatchRethrows(categoryCalls[c])]
    /\ UNCHANGED <<aggVars, envVars, hookVars, storeVars, bestVars,
                   bestRequest, bestError, pageVars>>

\* apiClient.get(endpoint) fulfils with a response.
CategoryResponse ==
    /\ \E c \in 1..Len(categoryCalls) : \E data \in Payloads \cup {<<>>} :
          /\ categoryCalls[c].pc = "awaiting"
          /\ categoryCalls' =
                 [categoryCalls EXCEPT ![c] = ReturnData(categoryCalls[c], data)]
    /\ UNCHANGED <<aggVars, envVars, hookVars, storeVars, bestVars,
                   bestRequest, bestError, pageVars>>

----------------------------------------------------------------------------
(* The cart of the Menu page                                               *)

\* Items on the menu cards: id 5 is served by two categories.
MenuItem(id, category) == [id |-> id, category |-> category]

MenuItems ==
    {MenuItem(5, "burgers"), MenuItem(5, "pizzas"), MenuItem(7, "burgers"),
     MenuItem(9, "drinks")}

\* { ...food, quantity }
CartLine(food, quantity) ==
    [id |-> food.id, category |-> food.category, quantity |-> quantity]

\* prevCart.find(item => item.id === food.id)
HasLine(prevCart, foodId) ==
    \E k \in 1..Len(prevCart) : prevCart[k].id = foodId

\* Variant that looks the line up by id and category.
AddToCartByCategory(prevCart, food) ==
    IF \E k \in 1..Len(prevCart) :
          prevCart[k].id = food.id /\ prevCart[k].category = food.category
    THEN [k \in 1..Len(prevCart) |->
             IF prevCart[k].id = food.id
             THEN [prevCart[k] EXCEPT !.quantity = @ + 1]
             ELSE prevCart[k]]
    ELSE Append(prevCart, CartLine(food, 1))

\* addToCart: the updater passed to setCart
AddToCart(prevCart, food) ==
    IF HasLine(prevCart, food.id)
    THEN [k \in 1..Len(prevCart) |->
             IF prevCart[k].id = food.id
             THEN [prevCart[k] EXCEPT !.quantity = @ + 1]
             ELSE prevCart[k]]
    ELSE Append(prevCart, CartLine(food, 1))

\* removeFromCart: prevCart.filter(item => item.id !== foodId)
RemoveFromCart(prevCart, foodId) ==
    SelectSeq(prevCart, LAMBDA item : item.id # foodId)

\* updateQuantity
UpdateQuantity(prevCart, foodId, newQuantity) ==
    IF newQuantity <= 0
    THEN RemoveFromCart(prevCart, foodId)
    ELSE [k \in 1..Len(prevCart) |->
             IF prevCart[k].id = foodId
             THEN [prevCart[k] EXCEPT !.quantity = newQuantity]
             ELSE prevCart[k]]

\* The handler a click called, the id (and category) of the item or line it
\* was given, and the newQuantity of updateQuantity.
Click(handler, id, category, newQuantity) ==
    [handler |-> handler, id |-> id, category |-> category,
     newQuantity |-> newQuantity]

NoClick == Click("none", 0, "", 0)

\* Largest quantity a line is taken to.
MaxQuantity == 3

\* onClick={() => addToCart(food)} of a menu card
AddClicked ==
    /\ \E food \in MenuItems :
          /\ \A k \in 1..Len(cart) :
                cart[k].id = food.id => cart[k].quantity < MaxQuantity
          /\ cart' = AddToCart(cart, food)
          /\ lastClick' = Click("addToCart", food.id, food.category, 0)
    /\ UNCHANGED <<aggVars, envVars, hookVars, storeVars, bestVars, apiVars,
                   sortCall>>

\* onClick={() => updateQuantity(item.id, item.quantity + 1)}
PlusClicked ==
    /\ \E k \in 1..Len(cart) :
          /\ cart[k].quantity < MaxQuantity
          /\ cart' = UpdateQuantity(cart, cart[k].id, cart[k].quantity + 1)
          /\ lastClick' = Click("updateQuantity", cart[k].id, "",
                                cart[k].quantity + 1)
    /\ UNCHANGED <<aggVars, envVars, hookVars, storeVars, bestVars, apiVars,
                   sortCall>>

\* onClick={() => updateQuantity(item.id, item.quantity - 1)}
MinusClicked ==
    /\ \E k \in 1..Len(cart) :
          /\ cart' = UpdateQuantity(cart, cart[k].id, cart[k].quantity - 1)
          /\ lastClick' = Click("updateQuantity", cart[k].id, "",
                                cart[k].quantity - 1)
    /\ UNCHANGED <<aggVars, envVars, hookVars, storeVars, bestVars, apiVars,
                   sortCall>>

\* onClick={() => removeFromCart(item.id)}
RemoveClicked ==
    /\ \E k \in 1..Len(cart) :
          /\ cart' = RemoveFromCart(cart, cart[k].id)
          /\ lastClick' = Click("removeFromCart", cart[k].id, "", 0)
    /\ UNCHANGED <<aggVars, envVars, hookVars, storeVars, bestVars, apiVars,
                   sortCall>>

\* clearCart: setCart([])
ClearCart ==
    /\ Len(cart) > 0
    /\ cart' = <<>>
    /\ lastClick' = Click("clearCart", 0, "", 0)
    /\ UNCHANGED <<aggVars, envVars, hookVars, storeVars, bestVars, apiVars,
                   sortCall>>

----------------------------------------------------------------------------
(* sortFoods                                                               *)

\* a.name.toLowerCase()
ToLowerCase(name) ==
    CASE name = "Apple" -> "apple"
      [] name = "apple" -> "apple"
      [] name = "Bun" -> "bun"
      [] name = "cake" -> "cake"

\* Strings are compared by code units: the position of a lower-cased name
\* in that order.
StringRank(str) ==
    CASE str = "apple" -> 1
      [] str = "bun" -> 2
      [] str = "cake" -> 3

\* switch (sortBy): the values the comparator compares
SortValue(food, sortBy) ==
    CASE sortBy = "price" -> food.price
      [] sortBy = "rating" -> food.rate
      [] OTHER -> StringRank(ToLowerCase(food.name))

\* Variant of the comparator that ignores the direction.
CompareAscending(a, b, sortBy, order) ==
    IF SortValue(a, sortBy) > SortValue(b, sortBy) THEN 1 ELSE -1

\* The comparator passed to sort: 1 or -1, never 0.
Compare(a, b, sortBy, order) ==
    LET aValue == SortValue(a, sortBy)
        bValue == SortValue(b, sortBy)
    IN IF order = "desc"
       THEN IF aValue < bValue THEN 1 ELSE -1
       ELSE IF aValue > bValue THEN 1 ELSE -1

\* Array.prototype.sort leaves the order of items the comparator does not
\* order consistently to the engine; two engines are modelled. "linear"
\* moves an item left past every item with comparefn(item before, it) > 0.
RECURSIVE InsertLinear(_, _, _, _)
InsertLinear(sorted, x, sortBy, order) ==
    IF sorted = <<>> THEN <<x>>
    ELSE LET last == sorted[Len(sorted)]
         IN IF Compare(last, x, sortBy, order) > 0
            THEN Append(InsertLinear(SubSeq(sorted, 1, Len(sorted) - 1), x,
                                     sortBy, order),
                        last)
            ELSE Append(sorted, x)

\* "binary" searches the place of an item with comparefn(it, middle) < 0.
RECURSIVE BinaryPlace(_, _, _, _, _, _)
BinaryPlace(sorted, pivot, left, right, sortBy, order) ==
    IF left >= right THEN left
    ELSE LET mid == left + ((right - left) \div 2)
         IN IF Compare(pivot, sorted[mid + 1], sortBy, order) < 0
            THEN BinaryPlace(sorted, pivot, left, mid, sortBy, order)
            ELSE BinaryPlace(sorted, pivot, mid + 1, right, sortBy, order)

InsertBinary(sorted, x, sortBy, order) ==
    LET at == BinaryPlace(sorted, x, 0, Len(sorted), sortBy, order)
    IN SubSeq(sorted, 1, at) \o <<x>> \o SubSeq(sorted, at + 1, Len(sorted))

\* sortedFoods.sort((a, b) => ...)
RECURSIVE ArraySort(_, _, _, _, _)
ArraySort(array, done, sortBy, order, engine) ==
    IF Len(done) = Len(array) THEN done
    ELSE LET x == array[Len(done) + 1]
         IN ArraySort(array,
                      IF engine = "linear"
                      THEN InsertLinear(done, x, sortBy, order)
                      ELSE InsertBinary(done, x, sortBy, order),
                      sortBy, order, engine)

\* const sortedFoods = [...foods]: the argument after the call.
ArgumentAfterSort(foods, sortedFoods) == foods

\* sortFoods(foods, sortBy, order) on the engine of the browser
SortFoods(call) ==
    LET sortedFoods == ArraySort(call.foods, <<>>, call.sortBy, call.order,
                                 call.engine)
    IN [call EXCEPT !.returned = TRUE,
                    !.result = sortedFoods,
                    !.foods = ArgumentAfterSort(call.foods, sortedFoods)]

\* Items of the lists sorted: names that differ in case only, equal
\* prices, equal ratings.
SortItem(name, price, rate) == [name |-> name, price |-> price, rate |-> rate]

SortItems ==
    {SortItem("Bun", 5, 3), SortItem("apple", 5, 4), SortItem("Apple", 2, 4),
     SortItem("cake", 9, 1)}

\* Length of the lists sorted at most.
MaxSortLen == 3

SortLists == UNION {[1..n -> SortItems] : n \in 0..MaxSortLen}

\* 'country' stands for the keys sortFoods has no case for.
SortCalls ==
    [foods : SortLists, passed : {<<>>},
     sortBy : {"name", "price", "rating", "country"},
     order : {"asc", "desc"}, engine : {"linear", "binary"},
     returned : {FALSE}, result : {<<>>}]

NoSort ==
    [foods |-> <<>>, passed |-> <<>>, sortBy |-> "name", order |-> "asc",
     engine |-> "linear", returned |-> FALSE, result |-> <<>>]

CallSortFoods ==
    /\ ~sortCall.returned
    /\ sortCall' = SortFoods([sortCall EXCEPT !.passed = sortCall.foods])
    /\ UNCHANGED <<aggVars, envVars, hookVars, storeVars, bestVars, apiVars,
                   cart, lastClick>>

----------------------------------------------------------------------------
(* Initial states                                                          *)

\* The bestFoods query not settled, no call of getFoodsByCategory.
ApiIdle ==
    /\ bestRequest = "none"
    /\ bestError = "null"
    /\ categoryCalls = <<>>

\* useState<CartItem[]>([]); no call of sortFoods.
PageIdle ==
    /\ cart = <<>>
    /\ lastClick = NoClick
    /\ sortCall = NoSort

\* First mount, nothing stored under the cache key.
HookStart ==
    /\ now = 0
    /\ cache = NoRecord
    /\ fetched = FALSE
    /\ resultData = <<>>
    /\ validatedFoods = <<>>
    /\ isValidating = FALSE
    /\ validationProgress = Zero
    /\ hasValidated = FALSE
    /\ passes = <<>>
    /\ page = "menu"
    /\ mounted = TRUE
    /\ storage = {}
    /\ crashed = FALSE
    /\ mountRead = "miss"
    /\ revalidations = 0
    /\ bestCache = NoRecord
    /\ BestUnmounted
    /\ ApiIdle
    /\ PageIdle

AggInit ==
    /\ AggStart
    /\ isMobile = FALSE
    /\ slowNet = FALSE
    /\ HookStart

SpecAgg == AggInit /\ [][NextAgg]_vars

\* navigator.connection is read on mobile only (isMobile && (saveData || isSlow))
ValInit ==
    /\ AggStart
    /\ isMobile \in BOOLEAN
    /\ slowNet \in (IF isMobile THEN BOOLEAN ELSE {FALSE})
    /\ HookStart

NextVal ==
    \/ FetchCompleted
    \/ ValidationEffect
    \/ ImgLoad
    \/ ImgError
    \/ ProbeTimeout
    \/ BatchSettled
    \/ AfterYield

SpecVal == ValInit /\ [][NextVal]_vars

\* A timer that is armed and not cleared fires (setTimeout in checkImageUrl).
FairProbeSpec == ValInit /\ [][NextVal]_vars /\ WF_vars(ProbeTimeout)

----------------------------------------------------------------------------
(* The helpers of services/api.ts and the cart, each on its own            *)

CategoryInit ==
    /\ AggStart
    /\ isMobile = FALSE
    /\ slowNet = FALSE
    /\ HookStart

NextCategory ==
    \/ CallGetFoodsByCategory
    \/ CategoryRequestFails
    \/ CategoryResponse

SpecCategory == CategoryInit /\ [][NextCategory]_vars

NextCart ==
    \/ AddClicked
    \/ PlusClicked
    \/ MinusClicked
    \/ RemoveClicked
    \/ ClearCart

SpecCart == CategoryInit /\ [][NextCart]_vars

\* Every list, key, direction and engine considered.
SortInit ==
    /\ AggStart
    /\ isMobile = FALSE
    /\ slowNet = FALSE
    /\ now = 0
    /\ cache = NoRecord
    /\ fetched = FALSE
    /\ resultData = <<>>
    /\ validatedFoods = <<>>
    /\ isValidating = FALSE
    /\ validationProgress = Zero
    /\ hasValidated = FALSE
    /\ passes = <<>>
    /\ page = "menu"
    /\ mounted = TRUE
    /\ storage = {}
    /\ crashed = FALSE
    /\ mountRead = "miss"
    /\ revalidations = 0
    /\ bestCache = NoRecord
    /\ BestUnmounted
    /\ ApiIdle
    /\ cart = <<>>
    /\ lastClick = NoClick
    /\ sortCall \in SortCalls

SpecSort == SortInit /\ [][CallSortFoods]_vars

----------------------------------------------------------------------------
(* A session of one page over a store left by earlier sessions             *)

\* Timestamp of the records found in the store.
WrittenAt == 1000

\* The clock runs over the last instant a record of WrittenAt is served,
\* the instant before it and the first instant it is expired.
LastNow == WrittenAt + TTL + 1

Times == {LastNow - 2, LastNow - 1, LastNow}

\* Items as an earlier session stored them: two share a uniqueId, two have
\* no uniqueId and share an id.
Stored(uniqueId, id) == [uniqueId |-> uniqueId, id |-> id, img |-> ""]

StoredFoods == <<Stored(1, 7), Stored(0, 2), Stored(1, 8), Stored(0, 2)>>

StoredRecords ==
    {NoRecord, Garbage, Record(<<>>, WrittenAt), Record(StoredFoods, WrittenAt)}

\* Nothing throws; setItem throws (quota); removeItem throws; storage is
\* disabled and every call throws.
StorageModes ==
    { {}, {"setItem"}, {"removeItem"}, {"getItem", "setItem", "removeItem"} }

\* Catalogs the fetch of such a session delivers: none, or a few items of
\* which the second may carry an image URL.
MaxFetched == 2

FacadeCatalogs ==
    { CatalogOf(n, live) : n \in {0, MaxFetched}, live \in SUBSET {2} }

FetchSmall == FetchFrom(FacadeCatalogs)

InFlight ==
    \/ \E p \in PassIdx : passes[p].pc # "done"
    \/ \E p \in 1..Len(bestPasses) : bestPasses[p].pc # "done"

\* Date.now() advances while a pass waits for its probes
Tick ==
    /\ InFlight
    /\ now < LastNow
    /\ now' = now + 1
    /\ UNCHANGED <<apiVars, pageVars,
                   aggVars, isMobile, slowNet, hookVars, storeVars, bestVars>>

FacadeInit ==
    /\ AggStart
    /\ page \in {"menu", "home"}
    /\ isMobile \in (IF page = "menu" THEN BOOLEAN ELSE {FALSE})
    /\ slowNet \in (IF isMobile THEN BOOLEAN ELSE {FALSE})
    /\ now \in Times
    /\ storage \in StorageModes
    /\ cache \in (IF page = "menu" THEN StoredRecords
                  ELSE {Record(StoredFoods, WrittenAt)})
    /\ bestCache \in (IF page = "home" THEN StoredRecords
                      ELSE {Record(StoredFoods, WrittenAt)})
    /\ mounted = FALSE
    /\ crashed = FALSE
    /\ mountRead = "none"
    /\ revalidations = 0
    /\ fetched = FALSE
    /\ resultData = <<>>
    /\ validatedFoods = <<>>
    /\ isValidating = FALSE
    /\ validationProgress = Zero
    /\ hasValidated = FALSE
    /\ passes = <<>>
    /\ BestUnmounted
    /\ ApiIdle
    /\ PageIdle

NextFacade ==
    \/ MountMenu
    \/ FetchSmall
    \/ ValidationEffect
    \/ ImgLoad
    \/ ImgError
    \/ ProbeTimeout
    \/ BatchSettled
    \/ AfterYield
    \/ ClearCacheAndRevalidate
    \/ MountHome
    \/ BestFetchCompleted
    \/ BestValidationEffect
    \/ BestImgLoad
    \/ BestImgError
    \/ BestProbeTimeout
    \/ BestValidated
    \/ BestClearCacheAndRevalidate
    \/ Tick

SpecFacade == FacadeInit /\ [][NextFacade]_vars

----------------------------------------------------------------------------
(* Repeated clearCacheAndRevalidate on one fetched catalog                 *)

\* Calls of clearCacheAndRevalidate in succession.
MaxSuccessive == 2

RevalidateAgain == ClearCacheAndRevalidateUpTo(MaxSuccessive)

NextRevalidate ==
    \/ FetchSmall
    \/ ValidationEffect
    \/ ImgLoad
    \/ ImgError
    \/ ProbeTimeout
    \/ BatchSettled
    \/ AfterYield
    \/ RevalidateAgain

SpecRevalidate == ValInit /\ [][NextRevalidate]_vars

\* Calls of clearCacheAndRevalidate in a session whose passes are followed
\* to their end: MaxSuccessive on the constrained mobile device, where only
\* the handler starts passes, MaxRevalidate where the effect starts a pass
\* after every call as well.
RevalidateBudget == IF isMobile /\ slowNet THEN MaxSuccessive ELSE MaxRevalidate

RevalidateWithinBudget == ClearCacheAndRevalidateUpTo(RevalidateBudget)

NextTerminate ==
    \/ FetchSmall
    \/ ValidationEffect
    \/ ImgLoad
    \/ ImgError
    \/ ProbeTimeout
    \/ BatchSettled
    \/ AfterYield
    \/ RevalidateWithinBudget

\* Armed timers fire, the continuation of await Promise.all(batchPromises)
\* runs once the batch has resolved, and so does the one of the
\* setTimeout(r, 0) yield.
FairRevalidateSpec ==
    /\ ValInit
    /\ [][NextTerminate]_vars
    /\ WF_vars(ProbeTimeout)
    /\ WF_vars(BatchSettled)
    /\ WF_vars(AfterYield)

----------------------------------------------------------------------------
(* Properties of the aggregator                                            *)

AggDone == aggPc = "done"

Catalog == aggResult.value

CatalogIdx == 1..Len(Catalog)

\* Position of a category name in the fixed request order.
CatPos(c) == CHOOSE k \in CatIdx : categories[k] = c

\* First position of a raw id in a response array.
FirstPos(items, id) ==
    CHOOSE p \in 1..Len(items) :
        items[p].id = id /\ \A q \in 1..(p - 1) : items[q].id # id

IsArray(result) == result.status = "fulfilled" /\ result.data.kind = "array"

NoMalformedBody == \A k \in CatIdx : ~MapThrows(settled[k])

\* C1: the returned catalog never holds two items with the same uniqueId;
\* every item's uniqueId is its raw id, "-", its category; of the records of
\* one response that share a raw id only the first is kept; and when the
\* loop runs to its end every (raw id, category) that was sent is retained,
\* so the same raw id from two categories yields two items.
C1_UniqueIds ==
    AggDone =>
        /\ \A i, j \in CatalogIdx :
              i # j => Catalog[i].uniqueId # Catalog[j].uniqueId
        /\ \A i \in CatalogIdx :
              LET k == CatPos(Catalog[i].category)
                  sent == settled[k].data.items
              IN /\ Catalog[i].uniqueId = Catalog[i].id \o "-" \o categories[k]
                 /\ Catalog[i].name = sent[FirstPos(sent, Catalog[i].id)].name
        /\ NoMalformedBody =>
              \A k \in CatIdx :
                 IsArray(settled[k]) =>
                    \A p \in 1..Len(settled[k].data.items) :
                       \E i \in CatalogIdx :
                          /\ Catalog[i].id = settled[k].data.items[p].id
                          /\ Catalog[i].category = categories[k]

\* C1 witness: raw id 5 arrived from burgers (twice) and from pizzas; the
\* catalog holds 5-burgers and 5-pizzas, and the second burger 5 is dropped.
C1_Witness ==
    /\ AggDone
    /\ settled[1] = Fulfilled(ArrayBody(<<a5, b5>>))
    /\ settled[2] = Fulfilled(ArrayBody(<<c7, a5>>))
    /\ \E i, j \in CatalogIdx :
          /\ Catalog[i].uniqueId = "5-burgers"
          /\ Catalog[j].uniqueId = "5-pizzas"
    /\ \A i \in CatalogIdx : Catalog[i].name # "b"

\* C2: getAllFoods always resolves; a rejected category contributes no item
\* and the catalog holds exactly the (id, category) pairs sent by the
\* fulfilled categories, once each; with all seven rejected it is empty.
\* (A fulfilled request whose body is no array is the case of C3.)
C2_PartialFailure ==
    AggDone =>
        /\ aggResult.state = "resolved"
        /\ (\A k \in CatIdx : settled[k] = Rejected) => Catalog = <<>>
        /\ \A i \in CatalogIdx :
              settled[CatPos(Catalog[i].category)].status = "fulfilled"
        /\ NoMalformedBody =>
              LET sentPairs ==
                      UNION { { <<settled[k].data.items[p].id, categories[k]>> :
                                  p \in 1..Len(settled[k].data.items) } :
                              k \in {c \in CatIdx : IsArray(settled[c])} }
              IN /\ {<<Catalog[i].id, Catalog[i].category>> : i \in CatalogIdx}
                        = sentPairs
                 /\ Len(Catalog) = Cardinality(sentPairs)

\* C2 witness: some categories rejected, others fulfilled, and the items of
\* the fulfilled ones are in the catalog.
C2_Witness ==
    /\ AggDone
    /\ settled[1] = Rejected
    /\ settled[2] = Fulfilled(ArrayBody(<<c7, a5>>))
    /\ settled[7] = Rejected
    /\ Len(Catalog) >= 2
    /\ \A i \in CatalogIdx : Catalog[i].category # "burgers"

\* C3 (as claimed): a fulfilled request whose body is present but is no
\* array contributes nothing, and every other category that sent a non-empty
\* array still has its items in the catalog.
C3_MalformedRecovered ==
    AggDone =>
        \A k \in CatIdx :
            (IsArray(settled[k]) /\ settled[k].data.items # <<>>) =>
                \E i \in CatalogIdx : Catalog[i].category = categories[k]

\* C4: the catalog is ordered by the fixed category order and, inside one
\* category, by position in that category's response; the order in which
\* the requests settled plays no part.
C4_CategoryOrder ==
    AggDone =>
        \A i, j \in CatalogIdx :
            i < j =>
                LET ki == CatPos(Catalog[i].category)
                    kj == CatPos(Catalog[j].category)
                    sent == settled[ki].data.items
                IN \/ ki < kj
                   \/ /\ ki = kj
                      /\ FirstPos(sent, Catalog[i].id) < FirstPos(sent, Catalog[j].id)

\* C4 witness: requests settled out of request order, and the catalog still
\* starts with the burgers (c before a before the pizzas).
C4_Witness ==
    /\ AggDone
    /\ outOfOrder
    /\ settled[1] = Fulfilled(ArrayBody(<<c7, a5>>))
    /\ settled[2] = Fulfilled(ArrayBody(<<a5, b5>>))
    /\ Len(Catalog) >= 3
    /\ Catalog[1].uniqueId = "7-burgers"
    /\ Catalog[2].uniqueId = "5-burgers"
    /\ Catalog[3].uniqueId = "5-pizzas"

----------------------------------------------------------------------------
(* Properties of the image validator and of the probe                      *)

\* The window the device class gives a catalog of n items.
WindowOf(n) == Min(n, IF isMobile THEN 30 ELSE 80)

\* Number of the batch that holds position k (from 0).
BatchNo(k) == (k - 1) \div (IF isMobile THEN 10 ELSE 50)

Range(seq) == {seq[n] : n \in 1..Len(seq)}

\* b has no repeated item and a holds the same items, each once.
IsPermutation(a, b) ==
    /\ Len(a) = Len(b)
    /\ Cardinality(Range(b)) = Len(b)
    /\ Range(a) = Range(b)

\* a <= b for fractions with positive denominators
FracLeq(a, b) == a.num * b.den <= b.num * a.den

\* C5: the list a completed call of validateImages produces, and hands to
\* setValidatedFoods, is a permutation of the catalog it was called with.
C5_NoItemLost ==
    \A p \in PassIdx :
        passes[p].pc = "done" =>
            /\ IsPermutation(passes[p].reordered, passes[p].foods)
            /\ validatedFoods = passes[p].reordered

\* C5 witness: a completed pass over a catalog larger than the window with
\* confirmed and unconfirmed items, whose output differs from its input.
C5_Witness ==
    \E p \in PassIdx :
        /\ passes[p].pc = "done"
        /\ Len(passes[p].foods) > WindowOf(Len(passes[p].foods))
        /\ passes[p].validFirst # <<>>
        /\ passes[p].invalidWithinValidated # <<>>
        /\ validatedFoods # passes[p].foods

\* Group of an item in the final order: 1 probed true, 2 probed otherwise,
\* 3 beyond the window. (In Catalogs an item's uniqueId is its position.)
GroupOf(pass, item) ==
    IF item.uniqueId > WindowOf(Len(pass.foods)) THEN 3
    ELSE IF pass.probes[item.uniqueId].promise = "true" THEN 1 ELSE 2

\* C6: the final order is the window items probed true, then the window
\* items probed false, then the items beyond the window, each group in its
\* original order, whatever the order in which the probes resolved.
C6_FinalOrder ==
    \A p \in PassIdx :
        passes[p].pc = "done" =>
            LET pass == passes[p]
                out == pass.reordered
            IN /\ Len(out) = Len(pass.foods)
               /\ \A n \in 1..(Len(out) - 1) :
                     \/ GroupOf(pass, out[n]) < GroupOf(pass, out[n + 1])
                     \/ /\ GroupOf(pass, out[n]) = GroupOf(pass, out[n + 1])
                        /\ out[n].uniqueId < out[n + 1].uniqueId

\* C6 witness: item 12 resolved (true) while item 11 of the same batch was
\* pending; item 11 then failed, so the output starts with item 12, holds
\* item 11 among the unconfirmed ones and ends with the untouched tail.
C6_Witness ==
    \E p \in PassIdx :
        /\ passes[p].pc = "done"
        /\ passes[p].raced
        /\ Len(passes[p].foods) > WindowOf(Len(passes[p].foods))
        /\ passes[p].reordered[1].uniqueId = 12
        /\ passes[p].reordered[12].uniqueId = 11
        /\ passes[p].reordered[Len(passes[p].foods)].uniqueId = Len(passes[p].foods)

\* C7: a pass calls checkImageUrl min(|catalog|, limit) times in all, limit
\* 30 on mobile and 80 otherwise, and never for an item beyond the window.
C7_ProbeCount ==
    \A p \in PassIdx :
        LET pass == passes[p]
            w == WindowOf(Len(pass.foods))
        IN /\ pass.probeCount <= w
           /\ pass.pc = "done" => pass.probeCount = w
           /\ pass.probeCount =
                 Cardinality({k \in DOMAIN pass.probes :
                                 pass.probes[k].promise # "none"})
           /\ \A k \in DOMAIN pass.probes : k > w => pass.probes[k] = NoProbe

\* C7 witness: a mobile pass over 31 items ended after 30 probes; item 31
\* has an image URL and was never probed.
C7_Witness ==
    \E p \in PassIdx :
        /\ isMobile
        /\ passes[p].pc = "done"
        /\ Len(passes[p].foods) = 31
        /\ passes[p].foods[31].img # ""
        /\ passes[p].probes[31] = NoProbe
        /\ passes[p].probeCount = 30

ProgressInv ==
    /\ validationProgress.den > 0
    /\ FracLeq(Zero, validationProgress)
    /\ FracLeq(validationProgress, Hundred)
    /\ \A p \in PassIdx :
          LET pass == passes[p]
              probed == Len(pass.validFirst) + Len(pass.invalidWithinValidated)
          IN /\ pass.pc \in {"probing", "yield"} =>
                  validationProgress.num * WindowOf(Len(pass.foods))
                      = 100 * probed * validationProgress.den
             /\ pass.pc = "done" =>
                  validationProgress.num = 100 * validationProgress.den

\* C8: validationProgress never decreases during the pass, between batches
\* is (items probed so far / window size) x 100, never exceeds 100 and is
\* exactly 100 once the pass has completed.
C8_Progress ==
    /\ []ProgressInv
    /\ [][FracLeq(validationProgress, validationProgress')]_vars

\* C8 witness: between two batches, progress strictly between 0 and 100.
C8_Witness ==
    \E p \in PassIdx :
        /\ passes[p].pc = "probing"
        /\ passes[p].i > 0
        /\ ~FracLeq(validationProgress, Zero)
        /\ ~FracLeq(Hundred, validationProgress)

ProbeInv ==
    \A p \in PassIdx : \A k \in DOMAIN passes[p].probes :
        LET probe == passes[p].probes[k]
        IN /\ probe.promise \in {"none", "pending", "true", "false"}
           /\ probe.promise = "pending" => probe.timer = "armed"
           /\ probe.promise = "true" <=>
                 (probe.img = "load" /\ probe.timer = "cleared")
           /\ probe.promise = "false" <=>
                 \/ (probe.img = "none" /\ probe.timer = "none"
                        /\ probe # NoProbe /\ passes[p].foods[k].img = "")
                 \/ probe.timer = "fired"
                 \/ (probe.img = "error" /\ probe.timer = "cleared")

ProbeSettlesOnce ==
    \A p \in PassIdx : \A k \in DOMAIN passes[p].probes :
        Resolved(passes[p].probes[k]) =>
            passes'[p].probes[k].promise = passes[p].probes[k].promise

ProbePending(k) ==
    /\ Len(passes) >= 1
    /\ k \in DOMAIN passes[1].probes
    /\ passes[1].probes[k].promise = "pending"

ProbeResolved(k) ==
    /\ Len(passes) >= 1
    /\ k \in DOMAIN passes[1].probes
    /\ Resolved(passes[1].probes[k])

\* C9: a probe's promise only ever resolves (to true or false), resolves
\* once, is true exactly when load fired before error and timeout, false
\* when error or timeout fired first or the URL is empty, keeps a delivered
\* false when load arrives after the timeout, and, timers firing, every
\* pending probe is eventually resolved.
C9_ProbeResolves ==
    /\ []ProbeInv
    /\ [][ProbeSettlesOnce]_vars
    /\ \A k \in LiveSlots : ProbePending(k) ~> ProbeResolved(k)

\* C9 witness: the timeout fired first, the load event arrived afterwards,
\* and the probe's result is still false.
C9_Witness ==
    \E p \in PassIdx : \E k \in DOMAIN passes[p].probes :
        /\ passes[p].probes[k].timer = "fired"
        /\ passes[p].probes[k].img = "load"
        /\ passes[p].probes[k].promise = "false"

\* C10: whenever a probe of some batch has been started, every probe of
\* every earlier batch of that pass has resolved; the probes of one batch
\* are started together and may be pending at the same time.
C10_BatchesSequential ==
    \A p \in PassIdx :
        LET pass == passes[p]
            w == WindowOf(Len(pass.foods))
            size == IF isMobile THEN 10 ELSE 50
            Started(k) == pass.probes[k].promise # "none"
        IN \A b \in 0..BatchNo(w) :
              (\E j \in (b * size + 1)..Min((b + 1) * size, w) : Started(j)) =>
                  /\ \A k \in 1..(b * size) : Resolved(pass.probes[k])
                  /\ \A j \in (b * size + 1)..Min((b + 1) * size, w) : Started(j)

\* C10 witness: in the second batch of a mobile pass two probes are pending
\* at once, and all ten probes of the first batch have resolved.
C10_Witness ==
    \E p \in PassIdx :
        /\ passes[p].i = 10
        /\ Len(passes[p].foods) >= 12
        /\ passes[p].probes[11].promise = "pending"
        /\ passes[p].probes[12].promise = "pending"
        /\ \A k \in 1..10 : Resolved(passes[p].probes[k])

----------------------------------------------------------------------------
(* Properties of the cache and of the facade                               *)

\* C11 (as claimed): on a mobile device with a constrained network no
\* validation pass of the full catalog ever issues an image probe, and
\* isValidating is never true, whatever fetch completions and revalidate
\* calls have taken place.
C11_SkipOnConstrainedMobile ==
    (isMobile /\ slowNet) =>
        /\ \A p \in PassIdx : passes[p].probeCount = 0
        /\ ~isValidating

ReadWorks == ~Throws("getItem") /\ ~Throws("removeItem")

\* What a mount read of a stored {foods, timestamp} must do at the current
\* time: within 24 hours of the timestamp (the limit included) the record
\* stays and its non-empty items are the state; after that the record is
\* removed and the state is empty.
TtlRead(before, after, foods) ==
    IF now - before.timestamp <= TTL
    THEN /\ after = before
         /\ before.foods # <<>> => foods = before.foods
    ELSE /\ after = NoRecord
         /\ foods = <<>>

\* C12: a stored record is served when read up to and including 24 hours
\* after its timestamp and is treated as absent and removed when read
\* later, under the full-catalog key and under the featured key alike
\* (reads of a working store).
C12_TtlBoundary ==
    [][/\ (MountMenu /\ cache.json = "record" /\ ReadWorks) =>
              TtlRead(cache, cache', validatedFoods')
       /\ (MountHome /\ bestCache.json = "record" /\ ReadWorks) =>
              TtlRead(bestCache, bestCache', validatedBestFoods')]_vars

\* C12 witness: the Menu page mounted exactly 24 hours after the record's
\* timestamp and got the stored items.
C12_Witness ==
    /\ page = "menu"
    /\ mounted
    /\ mountRead = "hit"
    /\ now - cache.timestamp = TTL
    /\ validatedFoods = StoredFoods

\* C13: after the mount read found an unparseable value under the
\* full-catalog key, the value is gone from the store, nothing was thrown
\* out of the hook, the state is the one of a cache miss (empty list,
\* hasValidated false) and the fetched catalog goes to validation (or to the
\* skip on a constrained mobile network) as after a miss.
C13_CorruptSelfHeals ==
    (page = "menu" /\ mountRead = "corrupt") =>
        /\ mounted
        /\ ~crashed
        /\ cache.json # "garbage"
        /\ ~fetched => (validatedFoods = <<>> /\ ~hasValidated /\ cache = NoRecord)
        /\ (fetched /\ Len(resultData) > 0 /\ revalidations = 0) =>
              \/ passes # <<>>
              \/ isMobile /\ slowNet /\ hasValidated
              \/ ~hasValidated /\ validatedFoods = <<>>

\* C13 witness: the session that began with the corrupt value has fetched a
\* catalog and completed a validation pass over it.
C13_Witness ==
    /\ page = "menu"
    /\ mountRead = "corrupt"
    /\ revalidations = 0
    /\ \E p \in PassIdx : passes[p].pc = "done" /\ validatedFoods = passes[p].reordered

\* C14 (as claimed): once a validation pass has completed, the record under
\* the full-catalog key holds the reordered list that pass produced.
C14_CachePersistsOutput ==
    \A p \in PassIdx :
        passes[p].pc = "done" =>
            /\ cache.json = "record"
            /\ cache.foods = passes[p].reordered

\* C15: no step of a Menu session (read, expiry or corruption purge, write,
\* revalidate-clear on the full-catalog key) changes the record under the
\* featured key, and no step of a Home session changes the record under the
\* full-catalog key.
C15_KeysIndependent ==
    [][/\ page = "menu" => bestCache' = bestCache
       /\ page = "home" => cache' = cache]_vars

\* C15 witness: a Menu session purged or rewrote its own record and
\* cleared it in a revalidate, and the featured record is still the stored
\* one.
C15_Witness ==
    /\ page = "menu"
    /\ revalidations = 1
    /\ cache = NoRecord
    /\ \E p \in PassIdx : passes[p].pc # "done"
    /\ bestCache = Record(StoredFoods, WrittenAt)

\* C16 (as claimed): no storage exception leaves the hook, at the mount
\* read, at the cache write or at the clear of a revalidate.
C16_StorageFailureSwallowed == ~crashed

\* First position of a key in a list.
FirstAt(foods, key) ==
    CHOOSE n \in 1..Len(foods) :
        Key(foods[n]) = key /\ \A m \in 1..(n - 1) : Key(foods[m]) # key

\* C17: data is taken from the validated list when that is non-empty,
\* else from the fetch result, else is empty; it holds no two items with the
\* same key (uniqueId, or id without one) and holds, for every key of its
\* source, the first item with that key, in source order.
C17_FacadeData ==
    LET data == Deduped
        src == IF validatedFoods # <<>> THEN validatedFoods
               ELSE IF fetched THEN resultData ELSE <<>>
    IN /\ \A i, j \in 1..Len(data) : i # j => Key(data[i]) # Key(data[j])
       /\ {Key(data[i]) : i \in 1..Len(data)} = {Key(src[n]) : n \in 1..Len(src)}
       /\ \A i \in 1..Len(data) : data[i] = src[FirstAt(src, Key(data[i]))]
       /\ \A i, j \in 1..Len(data) :
             i < j => FirstAt(src, Key(data[i])) < FirstAt(src, Key(data[j]))

\* C17 witness: the validated list came from a stored record with repeated
\* keys; data keeps the first item of each key (uniqueId 1, then id 2).
C17_Witness ==
    /\ validatedFoods = StoredFoods
    /\ Len(Deduped) = 2
    /\ Deduped[1] = Stored(1, 7)
    /\ Deduped[2] = Stored(0, 2)

\* C18 (as claimed): isValidating is true exactly while some validation
\* pass of the full catalog has not completed.
C18_IsValidatingTracksPasses ==
    isValidating <=> \E p \in PassIdx : passes[p].pc # "done"

\* C19 (as claimed): hasValidated is true only when no validation pass is
\* still probing (the pass has completed or validation was skipped).
C19_HasValidatedAfterCompletion ==
    hasValidated => \A p \in PassIdx : passes[p].pc = "done"

\* C20 (as claimed): validCount never exceeds totalCount, and once the pass
\* has completed validCount is the number of items probed valid and
\* totalCount the number of items fetched.
C20_Counts ==
    /\ ValidCount <= TotalCount
    /\ \A p \in PassIdx :
          passes[p].pc = "done" =>
              /\ ValidCount = Len(passes[p].validFirst)
              /\ TotalCount = Len(passes[p].foods)

----------------------------------------------------------------------------
(* Properties of validation passes and of the featured hook                *)

\* C21 (as claimed): at most one validation pass of the full catalog is in
\* flight at any time, in every interleaving of the fetch, the validation
\* effect and clearCacheAndRevalidate.
C21_OnePassInFlight ==
    Cardinality({p \in PassIdx : passes[p].pc # "done"}) <= 1

\* Two calls of validateImages were given the same catalog and their probes
\* resolved alike, item by item.
SameOutcomes(p, q) ==
    /\ passes[p].foods = passes[q].foods
    /\ \A k \in DOMAIN passes[p].probes :
          passes[p].probes[k].promise = passes[q].probes[k].promise

AllPassesDone ==
    /\ passes # <<>>
    /\ \A p \in PassIdx : passes[p].pc = "done"

\* C22: clearCacheAndRevalidate is idempotent in its result. Passes over the
\* same fetched catalog whose probes resolve alike end with the same
\* ordering, and once the passes of the session have completed with like
\* outcomes, whether after the first or the second call, the facade's data
\* is the ordering the first pass produced.
C22_RevalidateIdempotent ==
    /\ \A p, q \in PassIdx :
          (/\ passes[p].pc = "done"
           /\ passes[q].pc = "done"
           /\ SameOutcomes(p, q)) => passes[p].reordered = passes[q].reordered
    /\ (AllPassesDone /\ \A p \in PassIdx : SameOutcomes(1, p)) =>
          /\ passes[1].foods = resultData
          /\ validatedFoods = passes[1].reordered
          /\ Deduped = passes[1].reordered

\* C22 witness: two calls in succession, every pass they started has
\* completed with the outcomes of the first pass (the second item valid, so
\* the ordering differs from the fetched one), and data is that ordering.
C22_Witness ==
    /\ revalidations = MaxSuccessive
    /\ Len(passes) = 1 + 2 * MaxSuccessive
    /\ AllPassesDone
    /\ \A p \in PassIdx : SameOutcomes(1, p)
    /\ passes[1].probes[2].promise = "true"
    /\ Deduped = passes[1].reordered
    /\ Deduped # resultData

\* C23 (as claimed): after the /best-foods request has failed, the featured
\* facade state has a non-null error field.
C23_BestFailureSurfaced == bestRequest = "failed" => bestError # "null"

\* C24 (as claimed): after validateBestFoodsImages completes, the featured
\* facade's data and the record written to the featured cache key contain
\* every fetched item, the invalid-image items after the valid ones.
C24_BestNothingDropped ==
    [][\A p \in 1..Len(bestPasses) :
          (bestPasses[p].pc = "probing" /\ bestPasses'[p].pc = "done") =>
              /\ IsPermutation(BestFinalData', bestPasses[p].foods)
              /\ ~Throws("setItem") =>
                    IsPermutation(bestCache'.foods, bestPasses[p].foods)]_vars

\* The items of the fetched list whose probe in pass p resolved true, in
\* fetch order.
ValidInFetchOrder(p) ==
    LET ProbedTrue(food) ==
            \E k \in DOMAIN bestPasses[p].probes :
                /\ bestPasses[p].foods[k] = food
                /\ bestPasses[p].probes[k].promise = "true"
    IN SelectSeq(bestData, ProbedTrue)

----------------------------------------------------------------------------
(* Properties of getFoodsByCategory, the cart and sortFoods                *)

\* The arguments that name a configured endpoint, whatever their case, and
\* the path of that endpoint.
ConfiguredPath ==
    ("burgers" :> "/burgers") @@ ("Pizzas" :> "/pizzas")
        @@ ("STEAKS" :> "/steaks") @@ ("ice_cream" :> "/ice-cream")
        @@ ("Ice_Cream" :> "/ice-cream") @@ ("best_foods" :> "/best-foods")

\* C26: getFoodsByCategory with a category of no configured endpoint rejects
\* with an 'Invalid category' error and issues no HTTP request; with a
\* configured category (case-insensitive key) it issues exactly one GET, to
\* that endpoint, and a failure of the request is rethrown to the caller,
\* never turned into an empty list.
C26_CategoryLookup ==
    \A c \in 1..Len(categoryCalls) :
        LET call == categoryCalls[c]
        IN IF call.category \in DOMAIN ConfiguredPath
           THEN /\ call.requests = <<ConfiguredPath[call.category]>>
                /\ call.response = "none" => call.promise.status = "pending"
                /\ call.response = "failed" =>
                      /\ call.promise.status = "rejected"
                      /\ call.promise.error = "request failed"
                /\ call.response = "ok" => call.promise.status = "fulfilled"
           ELSE /\ call.requests = <<>>
                /\ call.promise.status = "rejected"
                /\ call.promise.error = "Invalid category"

\* C26 witness: a call for 'ice_cream' issued one GET /ice-cream, the
\* request failed and the promise is rejected; a call for 'ice-cream', a
\* name of no endpoint, is rejected without a request.
C26_Witness ==
    /\ Len(categoryCalls) = 2
    /\ categoryCalls[1].category = "ice_cream"
    /\ categoryCalls[1].requests = <<"/ice-cream">>
    /\ categoryCalls[1].response = "failed"
    /\ categoryCalls[1].promise.status = "rejected"
    /\ categoryCalls[2].category = "ice-cream"
    /\ categoryCalls[2].requests = <<>>
    /\ categoryCalls[2].promise.error = "Invalid category"

\* Every line has an integer quantity of at least 1, no two lines an id.
CartInv ==
    /\ \A k \in 1..Len(cart) : cart[k].quantity \in Nat /\ cart[k].quantity >= 1
    /\ \A j, k \in 1..Len(cart) : cart[j].id = cart[k].id => j = k

\* What the handler called last did to the cart.
CartStep ==
    LET Matches(k) == cart[k].id = lastClick'.id
        Others == SelectSeq(cart, LAMBDA item : item.id # lastClick'.id)
    IN /\ (lastClick'.handler = "addToCart"
              /\ \E k \in 1..Len(cart) : Matches(k)) =>
             /\ Len(cart') = Len(cart)
             /\ \A k \in 1..Len(cart) :
                   /\ cart'[k].id = cart[k].id
                   /\ cart'[k].category = cart[k].category
                   /\ cart'[k].quantity =
                         cart[k].quantity + (IF Matches(k) THEN 1 ELSE 0)
       /\ (lastClick'.handler = "updateQuantity"
              /\ lastClick'.newQuantity <= 0) => cart' = Others

\* C27: after any sequence of addToCart, updateQuantity, removeFromCart and
\* clearCart every cart line has an integer quantity >= 1 and no two lines
\* share an id; addToCart of an item whose id matches a line increments
\* that line by 1, whatever the item's category, and updateQuantity with a
\* value <= 0 removes the line.
C27_CartInvariant == []CartInv /\ [][CartStep]_vars

\* C27 witness: the pizza with id 5 was added to a cart whose only line is
\* the burger with id 5; that line now has quantity 2.
C27_Witness ==
    /\ lastClick = Click("addToCart", 5, "pizzas", 0)
    /\ Len(cart) = 1
    /\ cart[1] = CartLine(MenuItem(5, "burgers"), 2)

\* The key of an item: its price, its rating, or (for 'name' and any other
\* sortBy) its name without regard to case.
NameKey == ("Apple" :> 1) @@ ("apple" :> 1) @@ ("Bun" :> 2) @@ ("cake" :> 3)

KeyOf(food, sortBy) ==
    IF sortBy = "price" THEN food.price
    ELSE IF sortBy = "rating" THEN food.rate
    ELSE NameKey[food.name]

\* How often an item occurs in a list.
Occurrences(list, item) == Cardinality({k \in 1..Len(list) : list[k] = item})

\* C28: for every list, key and direction the result of sortFoods is a
\* permutation of the input, non-decreasing by the key for 'asc' and
\* non-increasing for 'desc', and the input list is left unmodified.
C28_SortFoods ==
    sortCall.returned =>
        /\ Len(sortCall.result) = Len(sortCall.passed)
        /\ \A item \in SortItems :
              Occurrences(sortCall.result, item)
                  = Occurrences(sortCall.passed, item)
        /\ \A j, k \in 1..Len(sortCall.result) :
              j < k =>
                  IF sortCall.order = "desc"
                  THEN KeyOf(sortCall.result[j], sortCall.sortBy)
                           >= KeyOf(sortCall.result[k], sortCall.sortBy)
                  ELSE KeyOf(sortCall.result[j], sortCall.sortBy)
                           <= KeyOf(sortCall.result[k], sortCall.sortBy)
        /\ sortCall.foods = sortCall.passed

\* C28 witness: a list of three items sorted by a key sortFoods has no case
\* for, descending: the result is in descending order of name, differs from
\* the input, and the input is as it was passed.
C28_Witness ==
    /\ sortCall.returned
    /\ sortCall.sortBy = "country"
    /\ sortCall.order = "desc"
    /\ sortCall.passed = <<SortItem("apple", 5, 4), SortItem("cake", 9, 1),
                           SortItem("Bun", 5, 3)>>
    /\ sortCall.result = <<SortItem("cake", 9, 1), SortItem("Bun", 5, 3),
                           SortItem("apple", 5, 4)>>
    /\ sortCall.foods = sortCall.passed

----------------------------------------------------------------------------
(* Properties of the mount of the full-catalog hook and of termination     *)

\* A parseable record is stored and is not older than 24 hours.
FreshRecord(rec) ==
    /\ rec.present
    /\ rec.json = "record"
    /\ now - rec.timestamp <= TTL

\* C30: on mount hasValidated is initialised to true exactly when a
\* parseable, non-expired record exists under the full-catalog key, whether
\* or not its items list is empty; when such a record has an empty items
\* list the catalog is fetched but no validation pass starts until
\* clearCacheAndRevalidate is called; and no fetch of the catalog is issued
\* while the validated list is non-empty.
C30_MountHasValidated ==
    /\ [](((mountRead = "empty" /\ revalidations = 0) => passes = <<>>))
    /\ [][/\ (page = "menu" /\ ~mounted /\ mounted') =>
                 (hasValidated' <=> FreshRecord(cache))
          /\ (~fetched /\ fetched') => validatedFoods = <<>>]_vars

\* C30 witness: the hook mounted over a fresh record with an empty items
\* list, hasValidated is true, the catalog has been fetched, and no pass has
\* been started.
C30_Witness ==
    /\ page = "menu"
    /\ mountRead = "empty"
    /\ cache = Record(<<>>, WrittenAt)
    /\ hasValidated
    /\ fetched
    /\ Len(resultData) > 0
    /\ passes = <<>>

\* C25: every started validation pass terminates. With the probe events
\* firing, from any state with isValidating = true the hook reaches a state
\* with isValidating = false and validationProgress = 100, also when
\* clearCacheAndRevalidate is called while a pass is running.
C25_ValidationTerminates ==
    isValidating ~> (~isValidating /\ validationProgress = Hundred)

\* C25 witness: clearCacheAndRevalidate was called a second time while the
\* pass of the first call was still probing; isValidating is true and both
\* passes are running.
C25_Witness ==
    /\ isValidating
    /\ revalidations = MaxSuccessive
    /\ Len(passes) = 2
    /\ passes[1].pc = "probing"
    /\ passes[2].pc = "probing"
    /\ \E k \in DOMAIN passes[1].probes : passes[1].probes[k].promise = "pending"

====
